---- MODULE Spec2Model ----
(***************************************************************************)
(* Appointment scheduling and queue allocation of ClinicHub                *)
(* (src/appointments/models.py, forms.py, views.py, admin.py).             *)
(*                                                                         *)
(* Instants are integers: minutes since the epoch in UTC.  Two aware       *)
(* datetimes compare by instant, so a conversion between zones keeps the   *)
(* integer and only changes the calendar date that is derived from it.     *)
(* The calendar day is scaled down to DayLen minutes.                      *)
(***************************************************************************)
EXTENDS Integers, FiniteSets, Sequences, TLC

\* ---------------------------------------------------------------- bounds
MaxAppts == 2          \* primary keys the Appointment table may hand out
MaxAllocAppts == 3     \* the same, in the specification of the queue allocator
MaxReqs == 2           \* primary keys the PatientBookingRequest table may hand out
NumDoctors == 2        \* Doctor rows
DayLen == 3            \* minutes of one calendar day (scaled)
MaxTime == 2           \* latest instant a caller may ask for
MaxNow == 3            \* latest instant the clock reaches
NumProcs == 2          \* concurrent request handlers
NumPatients == 2       \* Patient rows
MaxSavedAppts == 1     \* Appointment rows created where every save is recorded
MaxMoveTime == 3       \* latest instant an appointment is moved to

\* ------------------------------------------------------------- constants
PAST_MARGIN == 1       \* timedelta(minutes=1)
GAP == 1               \* timedelta(minutes=1) of the form's window
NULL == -1             \* None / SQL NULL
LOCAL_TZ == 2          \* get_default_timezone(): offset of the local zone east of UTC

PENDING == "pending"
COMPLETED == "completed"
CANCELLED == "cancelled"
AppointmentStatus == {PENDING, COMPLETED, CANCELLED}

REQ_PENDING == "pending"
REQ_CONFIRMED == "confirmed"
REQ_REJECTED == "rejected"
BookingRequestStatus == {REQ_PENDING, REQ_CONFIRMED, REQ_REJECTED}

Doctors == 1..NumDoctors
Times == 0..MaxTime
Procs == 1..NumProcs

VARIABLES
    appts,      \* Appointment table: pk -> row
    nextPk,     \* next primary key of the Appointment table
    reqs,       \* PatientBookingRequest table: pk -> row
    nextReqPk,  \* next primary key of the PatientBookingRequest table
    notifs,     \* number of Notification rows
    now,        \* the clock (UTC instant)
    logging,    \* whether the responses of the handlers are recorded
    cap,        \* number of Appointment primary keys available
    last,       \* the response of the last request handled
    pc,         \* concurrent handlers: position of each
    loc,        \* concurrent handlers: the in-memory Appointment of each
    docLock     \* row lock of each Doctor: 0 = free, else the holder

vars == <<appts, nextPk, reqs, nextReqPk, notifs, now, logging, cap, last, pc, loc, docLock>>

\* ------------------------------------------------------- clock utilities

\* models._to_local_aware: None stays None; an aware or naive value becomes
\* the aware value in LOCAL_TZ that denotes the same instant.
_to_local_aware(dt) == IF dt = NULL THEN NULL ELSE dt

\* .astimezone(LOCAL_TZ).date(): calendar day in the local zone
LocalDate(dt) == IF dt = NULL THEN NULL ELSE (dt + LOCAL_TZ) \div DayLen

\* .date() on a value loaded from the database (tzinfo = UTC)
UtcDate(dt) == IF dt = NULL THEN NULL ELSE dt \div DayLen

\* views._today: timezone.localdate()
_today(clock) == (clock + LOCAL_TZ) \div DayLen

\* ------------------------------------------------------------ the tables

\* a bug: only PENDING rows fall under the constraints
Active_pending_only(r) == r.status = PENDING

\* condition of both constraints: ~Q(status=CANCELLED)
Active(r) == r.status # CANCELLED

\* rows with pk -> r inserted or replaced
Put(rows, pk, r) == [k \in (DOMAIN rows) \cup {pk} |-> IF k = pk THEN r ELSE rows[k]]

\* rows without pk
Remove(rows, pk) == [k \in (DOMAIN rows) \ {pk} |-> rows[k]]

\* UniqueConstraint uq_doctor_time_not_cancelled
uq_doctor_time_not_cancelled(rows) ==
    \A a, b \in DOMAIN rows :
        (a # b /\ rows[a].time # NULL /\ rows[b].time # NULL
         /\ Active(rows[a]) /\ Active(rows[b])
         /\ rows[a].doctor = rows[b].doctor)
        => rows[a].time # rows[b].time

\* a bug: the constraint is declared on scheduled_time instead of scheduled_day
uq_doctor_day_queue_active_bytime(rows) ==
    \A a, b \in DOMAIN rows :
        (a # b /\ rows[a].time # NULL /\ rows[b].time # NULL
         /\ rows[a].queue # NULL /\ rows[b].queue # NULL
         /\ Active(rows[a]) /\ Active(rows[b])
         /\ rows[a].doctor = rows[b].doctor /\ rows[a].time = rows[b].time)
        => rows[a].queue # rows[b].queue

\* UniqueConstraint uq_doctor_day_queue_active
uq_doctor_day_queue_active(rows) ==
    \A a, b \in DOMAIN rows :
        (a # b /\ rows[a].day # NULL /\ rows[b].day # NULL
         /\ rows[a].queue # NULL /\ rows[b].queue # NULL
         /\ Active(rows[a]) /\ Active(rows[b])
         /\ rows[a].doctor = rows[b].doctor /\ rows[a].day = rows[b].day)
        => rows[a].queue # rows[b].queue

\* what the storage layer accepts
\* a bug: the queue-number constraint is missing from the table
Constraints_time_only(rows) == uq_doctor_time_not_cancelled(rows)

Constraints(rows) == uq_doctor_time_not_cancelled(rows) /\ uq_doctor_day_queue_active(rows)

\* a bug: the model validation forgets the grace margin
clean_no_margin(rows, pk, r, clock) ==
    IF r.time = NULL THEN "ok"
    ELSE IF _to_local_aware(r.time) < clock THEN "past"
    ELSE IF \E k \in DOMAIN rows :
                /\ k # pk
                /\ rows[k].doctor = r.doctor
                /\ rows[k].time = _to_local_aware(r.time)
                /\ rows[k].status # CANCELLED
         THEN "clash"
    ELSE "ok"

\* a bug: the model validation misses the clash query
clean_past_only(rows, pk, r, clock) ==
    IF r.time = NULL THEN "ok"
    ELSE IF _to_local_aware(r.time) < clock - PAST_MARGIN THEN "past"
    ELSE "ok"

\* Appointment.clean: "ok", "past" or "clash"
clean(rows, pk, r, clock) ==
    IF r.time = NULL THEN "ok"
    ELSE IF _to_local_aware(r.time) < clock - PAST_MARGIN THEN "past"
    ELSE IF \E k \in DOMAIN rows :
                /\ k # pk
                /\ rows[k].doctor = r.doctor
                /\ rows[k].time = _to_local_aware(r.time)
                /\ rows[k].status # CANCELLED
         THEN "clash"
    ELSE "ok"

SetMax(S) == CHOOSE m \in S : \A x \in S : x <= m

\* a bug: the aggregate is filtered by doctor only, not by scheduled_day
NextQueueNumber_per_doctor(rows, doctor, day) ==
    LET qs == {rows[k].queue : k \in {j \in DOMAIN rows :
                    /\ rows[j].doctor = doctor
                    /\ rows[j].status # CANCELLED
                    /\ rows[j].queue # NULL}}
    IN  (IF qs = {} THEN 0 ELSE SetMax(qs)) + 1

\* a bug: the aggregate defaults to 1 instead of 0 when there is no row
NextQueueNumber_off_by_one(rows, doctor, day) ==
    LET qs == {rows[k].queue : k \in {j \in DOMAIN rows :
                    /\ rows[j].doctor = doctor
                    /\ rows[j].day = day
                    /\ rows[j].status # CANCELLED
                    /\ rows[j].queue # NULL}}
    IN  (IF qs = {} THEN 1 ELSE SetMax(qs)) + 1

\* a bug: the least positive integer no ACTIVE row of (doctor, day) holds
NextQueueNumber_smallest_unused(rows, doctor, day) ==
    LET qs == {rows[k].queue : k \in {j \in DOMAIN rows :
                    /\ rows[j].doctor = doctor
                    /\ rows[j].day = day
                    /\ rows[j].status # CANCELLED
                    /\ rows[j].queue # NULL}}
    IN  CHOOSE n \in 1..(Cardinality(qs) + 1) :
            n \notin qs /\ \A m \in 1..(n - 1) : m \in qs

\* Appointment.save, creating with a scheduled_time: Max(queue_number) of the
\* ACTIVE rows of (doctor, scheduled_day), or 0, plus one
NextQueueNumber(rows, doctor, day) ==
    LET qs == {rows[k].queue : k \in {j \in DOMAIN rows :
                    /\ rows[j].doctor = doctor
                    /\ rows[j].day = day
                    /\ rows[j].status # CANCELLED
                    /\ rows[j].queue # NULL}}
    IN  (IF qs = {} THEN 0 ELSE SetMax(qs)) + 1

\* Appointment.save of a new object: [outcome, rows]
SaveCreate(rows, pk, doctor, time, status, clock) ==
    LET t   == _to_local_aware(time)
        day == LocalDate(t)
        qn  == IF t = NULL THEN NULL ELSE NextQueueNumber(rows, doctor, day)
        r   == [doctor |-> doctor, time |-> t, day |-> day, queue |-> qn, status |-> status]
        c   == clean(rows, pk, r, clock)
    IN  IF c # "ok" THEN [outcome |-> c, rows |-> rows]
        ELSE IF ~Constraints(Put(rows, pk, r)) THEN [outcome |-> "integrity", rows |-> rows]
        ELSE [outcome |-> "ok", rows |-> Put(rows, pk, r)]

\* a bug: an update is written without full_clean
SaveUpdate_no_full_clean(rows, pk, r, clock) ==
    LET t   == _to_local_aware(r.time)
        day == LocalDate(t)
        r2  == [r EXCEPT !.time = t, !.day = day]
    IN  IF ~Constraints(Put(rows, pk, r2)) THEN [outcome |-> "integrity", rows |-> rows]
        ELSE [outcome |-> "ok", rows |-> Put(rows, pk, r2)]

\* a bug: an update runs the numbering of a creation as well
SaveUpdate_renumber(rows, pk, r, clock) ==
    LET t   == _to_local_aware(r.time)
        day == LocalDate(t)
        r2  == [r EXCEPT !.time = t, !.day = day,
                         !.queue = NextQueueNumber(rows, r.doctor, day)]
        c   == clean(rows, pk, r2, clock)
    IN  IF c # "ok" THEN [outcome |-> c, rows |-> rows]
        ELSE IF ~Constraints(Put(rows, pk, r2)) THEN [outcome |-> "integrity", rows |-> rows]
        ELSE [outcome |-> "ok", rows |-> Put(rows, pk, r2)]

\* Appointment.save of a stored object r (pk set): the queue number is kept
SaveUpdate(rows, pk, r, clock) ==
    LET t   == _to_local_aware(r.time)
        day == LocalDate(t)
        r2  == [r EXCEPT !.time = t, !.day = day]
        c   == clean(rows, pk, r2, clock)
    IN  IF c # "ok" THEN [outcome |-> c, rows |-> rows]
        ELSE IF ~Constraints(Put(rows, pk, r2)) THEN [outcome |-> "integrity", rows |-> rows]
        ELSE [outcome |-> "ok", rows |-> Put(rows, pk, r2)]

\* AppointmentForm.clean_scheduled_time and AppointmentForm.clean:
\* "ok", "past" or "gap"
AppointmentFormClean(rows, pk, doctor, time, clock) ==
    IF _to_local_aware(time) < clock - PAST_MARGIN THEN "past"
    ELSE IF \E k \in DOMAIN rows :
                /\ k # pk
                /\ rows[k].doctor = doctor
                /\ rows[k].time # NULL
                /\ rows[k].time >= time - GAP
                /\ rows[k].time <= time + GAP
         THEN "gap"
    ELSE "ok"

\* an Appointment object not yet filled in
NoAppt == [doctor |-> 1, time |-> NULL, day |-> NULL, queue |-> NULL, status |-> PENDING]

NoResp == [op |-> "none", outcome |-> "ok", pk |-> 0, ref |-> 0]

\* the response recorded for a request
Resp(op, outcome, pk, ref) ==
    IF logging THEN [op |-> op, outcome |-> outcome, pk |-> pk, ref |-> ref] ELSE NoResp

\* ---------------------------------------------------------------- Init

Init ==
    /\ appts = << >>
    /\ nextPk = 1
    /\ reqs = << >>
    /\ nextReqPk = 1
    /\ notifs = 0
    /\ now = 0
    /\ logging = FALSE
    /\ cap = MaxAppts
    /\ last = NoResp
    /\ pc = [p \in Procs |-> "idle"]
    /\ loc = [p \in Procs |-> NoAppt]
    /\ docLock = [d \in Doctors |-> 0]


\* the clock advances
Tick ==
    /\ now < MaxNow
    /\ now' = now + 1
    /\ UNCHANGED <<appts, nextPk, reqs, nextReqPk, notifs, logging, cap, last, pc, loc, docLock>>

\* views.create_appointment (POST): AppointmentForm, then Appointment.save
CreateAppointment(doctor, time, status) ==
    /\ nextPk <= cap
    /\ LET f == AppointmentFormClean(appts, NULL, doctor, time, now)
           m == clean(appts, NULL, [doctor |-> doctor, time |-> time, day |-> NULL,
                                    queue |-> NULL, status |-> status], now)
           s == SaveCreate(appts, nextPk, doctor, time, status, now)
       IN  IF f # "ok" THEN
                /\ last' = Resp("create", f, 0, 0)
                /\ UNCHANGED <<appts, nextPk>>
           ELSE IF m # "ok" THEN
                /\ last' = Resp("create", m, 0, 0)
                /\ UNCHANGED <<appts, nextPk>>
           ELSE IF s.outcome # "ok" THEN
                /\ last' = Resp("create", s.outcome, 0, 0)
                /\ UNCHANGED <<appts, nextPk>>
           ELSE /\ appts' = s.rows
                /\ nextPk' = nextPk + 1
                /\ last' = Resp("create", "ok", nextPk, 0)
    /\ UNCHANGED <<reqs, nextReqPk, notifs, now, logging, cap, pc, loc, docLock>>

\* Appointment.objects.create(doctor, scheduled_time, status=PENDING): the call
\* approve_booking_request and the fallback of book_patient make
ModelCreate(doctor, time) ==
    /\ nextPk <= cap
    /\ LET s == SaveCreate(appts, nextPk, doctor, time, PENDING, now)
       IN  IF s.outcome # "ok" THEN
                /\ last' = Resp("modelCreate", s.outcome, 0, 0)
                /\ UNCHANGED <<appts, nextPk>>
           ELSE /\ appts' = s.rows
                /\ nextPk' = nextPk + 1
                /\ last' = Resp("modelCreate", "ok", nextPk, 0)
    /\ UNCHANGED <<reqs, nextReqPk, notifs, now, logging, cap, pc, loc, docLock>>

\* views.edit_appointment (POST): AppointmentForm bound to the stored row,
\* then Appointment.save of the existing object
EditAppointment(pk, doctor, time, status) ==
    /\ pk \in DOMAIN appts
    /\ LET r == [appts[pk] EXCEPT !.doctor = doctor, !.time = time, !.status = status]
           f == AppointmentFormClean(appts, pk, doctor, time, now)
           m == clean(appts, pk, r, now)
           s == SaveUpdate(appts, pk, r, now)
       IN  IF f # "ok" THEN
                /\ last' = Resp("edit", f, pk, 0)
                /\ UNCHANGED appts
           ELSE IF m # "ok" THEN
                /\ last' = Resp("edit", m, pk, 0)
                /\ UNCHANGED appts
           ELSE /\ appts' = s.rows
                /\ last' = Resp("edit", s.outcome, pk, 0)
    /\ UNCHANGED <<nextPk, reqs, nextReqPk, notifs, now, logging, cap, pc, loc, docLock>>

\* a bug: the view does not refuse COMPLETED appointments
CancelAppointment_no_guard(pk) ==
    /\ pk \in DOMAIN appts
    /\ appts' = [appts EXCEPT ![pk].status = CANCELLED]
    /\ last' = Resp("cancel", "ok", pk, 0)
    /\ UNCHANGED <<nextPk, reqs, nextReqPk, notifs, now, logging, cap, pc, loc, docLock>>

\* views.cancel_appointment (POST): refuse COMPLETED, else UPDATE status
CancelAppointment(pk) ==
    /\ pk \in DOMAIN appts
    /\ IF appts[pk].status = COMPLETED THEN
            /\ last' = Resp("cancel", "refused", pk, 0)
            /\ UNCHANGED appts
       ELSE /\ appts' = [appts EXCEPT ![pk].status = CANCELLED]
            /\ last' = Resp("cancel", "ok", pk, 0)
    /\ UNCHANGED <<nextPk, reqs, nextReqPk, notifs, now, logging, cap, pc, loc, docLock>>

\* views.delete_appointment (POST, superuser): hard delete
DeleteAppointment(pk) ==
    /\ pk \in DOMAIN appts
    /\ appts' = Remove(appts, pk)
    /\ last' = Resp("delete", "ok", pk, 0)
    /\ UNCHANGED <<nextPk, reqs, nextReqPk, notifs, now, logging, cap, pc, loc, docLock>>

\* views.confirm_appointment: refuse CANCELLED, else force PENDING and save
ConfirmAppointment(pk) ==
    /\ pk \in DOMAIN appts
    /\ IF appts[pk].status = CANCELLED THEN
            /\ last' = Resp("confirm", "refused", pk, 0)
            /\ UNCHANGED appts
       ELSE LET s == SaveUpdate(appts, pk, [appts[pk] EXCEPT !.status = PENDING], now)
            IN  /\ appts' = s.rows
                /\ last' = Resp("confirm", s.outcome, pk, 0)
    /\ UNCHANGED <<nextPk, reqs, nextReqPk, notifs, now, logging, cap, pc, loc, docLock>>

\* call_next_api: base_qs, the PENDING rows of the doctor whose local date is today
BaseQs(rows, doctor, clock) ==
    {k \in DOMAIN rows :
        /\ rows[k].doctor = doctor
        /\ rows[k].status = PENDING
        /\ rows[k].time # NULL
        /\ LocalDate(rows[k].time) = _today(clock)}

\* .order_by("scheduled_time").first(): 0 stands for None
First(rows, S) ==
    IF S = {} THEN 0
    ELSE CHOOSE k \in S : \A j \in S :
            rows[k].time < rows[j].time \/ (rows[k].time = rows[j].time /\ k <= j)

\* call_next_api: the row picked; apptId = 0 stands for no appointment_id
PickNext(rows, doctor, apptId, clock) ==
    IF apptId # 0 THEN
        IF \/ apptId \notin DOMAIN rows
           \/ rows[apptId].doctor # doctor
           \/ rows[apptId].status # PENDING
           \/ (rows[apptId].time # NULL /\ UtcDate(rows[apptId].time) # _today(clock))
        THEN First(rows, BaseQs(rows, doctor, clock))
        ELSE apptId
    ELSE First(rows, BaseQs(rows, doctor, clock))

\* views.call_next_api
CallNext(doctor, apptId) ==
    /\ LET nxt == PickNext(appts, doctor, apptId, now)
       IN  IF nxt = 0 THEN
                /\ last' = Resp("callNext", "empty", 0, doctor)
                /\ UNCHANGED appts
           ELSE LET s == SaveUpdate(appts, nxt, [appts[nxt] EXCEPT !.status = COMPLETED], now)
                IN  /\ appts' = s.rows
                    /\ last' = Resp("callNext", s.outcome, nxt, doctor)
    /\ UNCHANGED <<nextPk, reqs, nextReqPk, notifs, now, logging, cap, pc, loc, docLock>>

\* AppointmentAdmin.mark_completed / mark_cancelled: queryset.update(status=...)
AdminMarkStatus(pk, status) ==
    /\ pk \in DOMAIN appts
    /\ LET rows2 == [appts EXCEPT ![pk].status = status]
       IN  IF Constraints(rows2) THEN
                /\ appts' = rows2
                /\ last' = Resp("adminMark", "ok", pk, 0)
           ELSE /\ last' = Resp("adminMark", "integrity", pk, 0)
                /\ UNCHANGED appts
    /\ UNCHANGED <<nextPk, reqs, nextReqPk, notifs, now, logging, cap, pc, loc, docLock>>

\* a bug: the clash query of the request does not exclude CANCELLED rows
BookingRequestCleanFails_any_status(rows, br, clock) ==
    \/ _to_local_aware(br.time) < clock - PAST_MARGIN
    \/ \E k \in DOMAIN rows :
            /\ rows[k].doctor = br.doctor
            /\ rows[k].time = _to_local_aware(br.time)

\* PatientBookingRequest.clean: TRUE when it raises ValidationError
BookingRequestCleanFails(rows, br, clock) ==
    \/ _to_local_aware(br.time) < clock - PAST_MARGIN
    \/ \E k \in DOMAIN rows :
            /\ rows[k].doctor = br.doctor
            /\ rows[k].time = _to_local_aware(br.time)
            /\ rows[k].status # CANCELLED

\* a bug: the portal form does not check the instant against the clock
BookPatient_no_form_check(doctor, time, emitOk) ==
    /\ nextReqPk <= MaxReqs
    /\ LET br == [doctor |-> doctor, time |-> _to_local_aware(time), status |-> REQ_PENDING]
       IN  IF BookingRequestCleanFails(appts, br, now) THEN
                /\ last' = Resp("book", "invalid", 0, time)
                /\ UNCHANGED <<reqs, nextReqPk, notifs>>
           ELSE /\ reqs' = Put(reqs, nextReqPk, br)
                /\ nextReqPk' = nextReqPk + 1
                /\ IF emitOk THEN
                        /\ notifs' = notifs + 1
                        /\ last' = Resp("book", "ok", 0, nextReqPk)
                   ELSE /\ UNCHANGED notifs
                        /\ last' = Resp("book", "error", 0, nextReqPk)
    /\ UNCHANGED <<appts, nextPk, now, logging, cap, pc, loc, docLock>>

\* views.book_patient (POST): _PatientPortalBookingForm.clean, then
\* PatientBookingRequest.objects.create (save: full_clean, insert, then
\* Notification.objects.create, which is not guarded: emitOk tells whether it
\* succeeds, and its exception leaves the view after the request was stored).
\* The response names the request created or, when refused, the instant asked for.
BookPatient(doctor, time, emitOk) ==
    /\ nextReqPk <= MaxReqs
    /\ LET br == [doctor |-> doctor, time |-> _to_local_aware(time), status |-> REQ_PENDING]
       IN  IF time <= now THEN
                /\ last' = Resp("book", "past", 0, time)
                /\ UNCHANGED <<reqs, nextReqPk, notifs>>
           ELSE IF BookingRequestCleanFails(appts, br, now) THEN
                /\ last' = Resp("book", "invalid", 0, time)
                /\ UNCHANGED <<reqs, nextReqPk, notifs>>
           ELSE /\ reqs' = Put(reqs, nextReqPk, br)
                /\ nextReqPk' = nextReqPk + 1
                /\ IF emitOk THEN
                        /\ notifs' = notifs + 1
                        /\ last' = Resp("book", "ok", 0, nextReqPk)
                   ELSE /\ UNCHANGED notifs
                        /\ last' = Resp("book", "error", 0, nextReqPk)
    /\ UNCHANGED <<appts, nextPk, now, logging, cap, pc, loc, docLock>>

\* views.approve_booking_request; patientFound: the heuristic found a Patient
ApproveBookingRequest(rpk, patientFound) ==
    /\ rpk \in DOMAIN reqs
    /\ nextPk <= cap
    /\ IF ~patientFound THEN
            /\ last' = Resp("approve", "nopatient", 0, rpk)
            /\ UNCHANGED <<appts, nextPk, reqs>>
       ELSE LET br == reqs[rpk]
                s  == SaveCreate(appts, nextPk, br.doctor, _to_local_aware(br.time), PENDING, now)
            IN  IF s.outcome # "ok" THEN
                     /\ last' = Resp("approve", s.outcome, 0, rpk)
                     /\ UNCHANGED <<appts, nextPk, reqs>>
                ELSE /\ appts' = s.rows
                     /\ nextPk' = nextPk + 1
                     \* br.save(update_fields=["status"]) inside try/except Exception: pass
                     /\ reqs' = IF BookingRequestCleanFails(s.rows, br, now)
                                THEN reqs
                                ELSE [reqs EXCEPT ![rpk].status = REQ_CONFIRMED]
                     /\ last' = Resp("approve", "ok", nextPk, rpk)
    /\ UNCHANGED <<nextReqPk, notifs, now, logging, cap, pc, loc, docLock>>

Next ==
    \/ Tick
    \/ \E d \in Doctors, t \in Times, s \in AppointmentStatus : CreateAppointment(d, t, s)
    \/ \E d \in Doctors, t \in Times : ModelCreate(d, t)
    \/ \E k \in 1..cap, d \in Doctors, t \in Times, s \in AppointmentStatus :
            EditAppointment(k, d, t, s)
    \/ \E k \in 1..cap : CancelAppointment(k)
    \/ \E k \in 1..cap : DeleteAppointment(k)
    \/ \E k \in 1..cap : ConfirmAppointment(k)
    \/ \E d \in Doctors, k \in 0..cap : CallNext(d, k)
    \/ \E k \in 1..cap, s \in {COMPLETED, CANCELLED} : AdminMarkStatus(k, s)

\* every operation on appointments; responses are not recorded
Spec == Init /\ [][Next]_vars

\* ------------------------------------------------------ queue allocator

InitAlloc ==
    /\ appts = << >>
    /\ nextPk = 1
    /\ reqs = << >>
    /\ nextReqPk = 1
    /\ notifs = 0
    /\ now = 0
    /\ logging = FALSE
    /\ cap = MaxAllocAppts
    /\ last = NoResp
    /\ pc = [p \in Procs |-> "idle"]
    /\ loc = [p \in Procs |-> NoAppt]
    /\ docLock = [d \in Doctors |-> 0]

NextAlloc ==
    \/ Tick
    \/ \E d \in Doctors, t \in Times : ModelCreate(d, t)
    \/ \E k \in 1..cap : CancelAppointment(k)

\* sequences of create and cancel
SpecAlloc == InitAlloc /\ [][NextAlloc]_vars

\* ------------------------------------------------------ the front desk

InitDesk ==
    /\ appts = << >>
    /\ nextPk = 1
    /\ reqs = << >>
    /\ nextReqPk = 1
    /\ notifs = 0
    /\ now = 0
    /\ logging = TRUE
    /\ cap = MaxAppts
    /\ last = NoResp
    /\ pc = [p \in Procs |-> "idle"]
    /\ loc = [p \in Procs |-> NoAppt]
    /\ docLock = [d \in Doctors |-> 0]

NextDesk ==
    \/ Tick
    \/ \E d \in Doctors, t \in Times, s \in AppointmentStatus : CreateAppointment(d, t, s)
    \/ \E k \in 1..cap : CancelAppointment(k)
    \/ \E d \in Doctors, k \in 0..cap : CallNext(d, k)

\* booking, cancelling and calling patients, with the responses recorded
SpecDesk == InitDesk /\ [][NextDesk]_vars

\* ------------------------------------------------------ booking requests

InitBooking ==
    /\ appts = << >>
    /\ nextPk = 1
    /\ reqs = << >>
    /\ nextReqPk = 1
    /\ notifs = 0
    /\ now = 0
    /\ logging = TRUE
    /\ cap = MaxAppts
    /\ last = NoResp
    /\ pc = [p \in Procs |-> "idle"]
    /\ loc = [p \in Procs |-> NoAppt]
    /\ docLock = [d \in Doctors |-> 0]

NextBooking ==
    \/ Tick
    \/ \E d \in Doctors, t \in Times : ModelCreate(d, t)
    \/ \E k \in 1..cap : CancelAppointment(k)
    \/ \E d \in Doctors, t \in Times : BookPatient(d, t, TRUE)
    \/ \E k \in 1..MaxReqs, f \in BOOLEAN : ApproveBookingRequest(k, f)

\* booking requests and their approval, with the responses recorded; the
\* notification of the staff is always delivered
SpecBooking == InitBooking /\ [][NextBooking]_vars

NextIntake ==
    \/ Tick
    \/ \E d \in Doctors, t \in Times, e \in BOOLEAN : BookPatient(d, t, e)

\* the public intake alone, where the notification of the staff may fail
SpecIntake == InitBooking /\ [][NextIntake]_vars

\* --------------------------------------------- concurrent creation

\* a bug: the Doctor row is read without select_for_update
CanLockDoctor_unlocked(lock, doctor) == TRUE

\* Doctor.objects.select_for_update().get(pk=...): the row lock is granted
\* only while no other transaction holds it
CanLockDoctor(lock, doctor) == lock[doctor] = 0

\* the creators inside Appointment.save
InFlight == {p \in Procs : pc[p] \in {"lock", "scan", "insert"}}

\* the locks held by p are released when its transaction ends
Release(lock, p) == [d \in DOMAIN lock |-> IF lock[d] = p THEN 0 ELSE lock[d]]

\* Appointment.save, creating: normalise the time, derive the day, open the
\* transaction
BeginSave(p, doctor, time) ==
    /\ pc[p] = "idle"
    /\ nextPk + Cardinality(InFlight) <= cap
    /\ loc' = [loc EXCEPT ![p] = [doctor |-> doctor,
                                  time |-> _to_local_aware(time),
                                  day |-> LocalDate(_to_local_aware(time)),
                                  queue |-> NULL,
                                  status |-> PENDING]]
    /\ pc' = [pc EXCEPT ![p] = "lock"]
    /\ UNCHANGED <<appts, nextPk, reqs, nextReqPk, notifs, now, logging, cap, last, docLock>>

\* Appointment.save: lock the Doctor row
LockDoctor(p) ==
    /\ pc[p] = "lock"
    /\ CanLockDoctor(docLock, loc[p].doctor)
    /\ docLock' = [docLock EXCEPT ![loc[p].doctor] = p]
    /\ pc' = [pc EXCEPT ![p] = "scan"]
    /\ UNCHANGED <<appts, nextPk, reqs, nextReqPk, notifs, now, logging, cap, last, loc>>

\* a bug: the transaction ends after the aggregate, so the lock is released
\* before the INSERT
ScanQueue_unlocks(p) ==
    /\ pc[p] = "scan"
    /\ loc' = [loc EXCEPT ![p].queue = NextQueueNumber(appts, loc[p].doctor, loc[p].day)]
    /\ pc' = [pc EXCEPT ![p] = "insert"]
    /\ docLock' = Release(docLock, p)
    /\ UNCHANGED <<appts, nextPk, reqs, nextReqPk, notifs, now, logging, cap, last>>

\* Appointment.save: aggregate Max(queue_number) and assign last + 1
ScanQueue(p) ==
    /\ pc[p] = "scan"
    /\ loc' = [loc EXCEPT ![p].queue = NextQueueNumber(appts, loc[p].doctor, loc[p].day)]
    /\ pc' = [pc EXCEPT ![p] = "insert"]
    /\ UNCHANGED <<appts, nextPk, reqs, nextReqPk, notifs, now, logging, cap, last, docLock>>

\* Appointment.save: full_clean, INSERT and commit, or roll back
InsertCommit(p) ==
    /\ pc[p] = "insert"
    /\ LET c == clean(appts, NULL, loc[p], now)
           rows2 == Put(appts, nextPk, loc[p])
       IN  IF c = "ok" /\ Constraints(rows2) THEN
                /\ appts' = rows2
                /\ nextPk' = nextPk + 1
           ELSE UNCHANGED <<appts, nextPk>>
    /\ docLock' = Release(docLock, p)
    /\ pc' = [pc EXCEPT ![p] = "idle"]
    /\ loc' = [loc EXCEPT ![p] = NoAppt]
    /\ UNCHANGED <<reqs, nextReqPk, notifs, now, logging, cap, last>>

InitConc ==
    /\ appts = << >>
    /\ nextPk = 1
    /\ reqs = << >>
    /\ nextReqPk = 1
    /\ notifs = 0
    /\ now = 0
    /\ logging = FALSE
    /\ cap = MaxAllocAppts
    /\ last = NoResp
    /\ pc = [p \in Procs |-> "idle"]
    /\ loc = [p \in Procs |-> NoAppt]
    /\ docLock = [d \in Doctors |-> 0]

NextConc ==
    \/ Tick
    \/ \E p \in Procs, d \in Doctors, t \in Times : BeginSave(p, d, t)
    \/ \E p \in Procs : LockDoctor(p)
    \/ \E p \in Procs : ScanQueue(p)
    \/ \E p \in Procs : InsertCommit(p)
    \/ \E k \in 1..cap : CancelAppointment(k)

\* concurrent creators, each taking the steps of Appointment.save
SpecConc == InitConc /\ [][NextConc]_vars

\* --------------------------------------- concurrent create and call-next

\* the request being served by a call_next_api handler: its arguments, the
\* row picked (0 = None) and the Appointment rows it has locked
CallNextReq(doctor, apptId) ==
    [doctor |-> doctor, apptId |-> apptId, nxt |-> 0, locked |-> {}]

\* the handlers inside call_next_api
Calling == {p \in Procs : pc[p] \in {"cn_select", "cn_first", "cn_save"}}

\* a bug: select_for_update does not wait for the holder of the row
CanLockRow_no_wait(p, k) == TRUE

\* SELECT ... FOR UPDATE of Appointment row k by p: granted unless another
\* transaction holds the row
CanLockRow(p, k) == \A q \in Calling \ {p} : k \notin loc[q].locked

\* call_next_api: the transaction opens
CallNextBegin(p, doctor, apptId) ==
    /\ pc[p] = "idle"
    /\ loc' = [loc EXCEPT ![p] = CallNextReq(doctor, apptId)]
    /\ pc' = [pc EXCEPT ![p] = IF apptId # 0 THEN "cn_select" ELSE "cn_first"]
    /\ UNCHANGED <<appts, nextPk, reqs, nextReqPk, notifs, now, logging, cap, last, docLock>>

\* call_next_api: select_for_update().filter(pk=appt_id, doctor_id=...).first(),
\* then the test of status and date
CallNextLockExplicit(p) ==
    /\ pc[p] = "cn_select"
    /\ LET k == loc[p].apptId
           d == loc[p].doctor
       IN  \* appt_id is not read again after this step
           IF k \notin DOMAIN appts \/ appts[k].doctor # d THEN
                /\ pc' = [pc EXCEPT ![p] = "cn_first"]
                /\ loc' = [loc EXCEPT ![p].apptId = 0]
           ELSE /\ CanLockRow(p, k)
                /\ IF \/ appts[k].status # PENDING
                      \/ (appts[k].time # NULL /\ UtcDate(appts[k].time) # _today(now))
                   THEN /\ loc' = [loc EXCEPT ![p].locked = @ \cup {k}, ![p].apptId = 0]
                        /\ pc' = [pc EXCEPT ![p] = "cn_first"]
                   ELSE /\ loc' = [loc EXCEPT ![p].locked = @ \cup {k}, ![p].nxt = k,
                                              ![p].apptId = 0]
                        /\ pc' = [pc EXCEPT ![p] = "cn_save"]
    /\ UNCHANGED <<appts, nextPk, reqs, nextReqPk, notifs, now, logging, cap, last, docLock>>

\* call_next_api: base_qs.first() under select_for_update, and the 404 when
\* there is no row
CallNextLockFirst(p) ==
    /\ pc[p] = "cn_first"
    /\ LET k == First(appts, BaseQs(appts, loc[p].doctor, now))
       IN  IF k = 0 THEN
                /\ last' = Resp("callNext", "empty", 0, loc[p].doctor)
                /\ pc' = [pc EXCEPT ![p] = "idle"]
                /\ loc' = [loc EXCEPT ![p] = NoAppt]
           ELSE /\ CanLockRow(p, k)
                /\ loc' = [loc EXCEPT ![p].locked = @ \cup {k}, ![p].nxt = k]
                /\ pc' = [pc EXCEPT ![p] = "cn_save"]
                /\ UNCHANGED last
    /\ UNCHANGED <<appts, nextPk, reqs, nextReqPk, notifs, now, logging, cap, docLock>>

\* call_next_api: nxt.status = COMPLETED; nxt.save(update_fields=["status"]);
\* the transaction ends and the row locks are released
CallNextSave(p) ==
    /\ pc[p] = "cn_save"
    /\ LET k == loc[p].nxt
           s == SaveUpdate(appts, k, [appts[k] EXCEPT !.status = COMPLETED], now)
       IN  /\ appts' = s.rows
           /\ last' = Resp("callNext", s.outcome, k, loc[p].doctor)
    /\ pc' = [pc EXCEPT ![p] = "idle"]
    /\ loc' = [loc EXCEPT ![p] = NoAppt]
    /\ UNCHANGED <<nextPk, reqs, nextReqPk, notifs, now, logging, cap, docLock>>

InitLocks ==
    /\ appts = << >>
    /\ nextPk = 1
    /\ reqs = << >>
    /\ nextReqPk = 1
    /\ notifs = 0
    /\ now = 0
    /\ logging = FALSE
    /\ cap = MaxAppts
    /\ last = NoResp
    /\ pc = [p \in Procs |-> "idle"]
    /\ loc = [p \in Procs |-> NoAppt]
    /\ docLock = [d \in Doctors |-> 0]

NextLocks ==
    \/ Tick
    \/ \E p \in Procs, d \in Doctors, t \in Times : BeginSave(p, d, t)
    \/ \E p \in Procs : LockDoctor(p)
    \/ \E p \in Procs : ScanQueue(p)
    \/ \E p \in Procs : InsertCommit(p)
    \/ \E p \in Procs, d \in Doctors, k \in 0..cap : CallNextBegin(p, d, k)
    \/ \E p \in Procs : CallNextLockExplicit(p)
    \/ \E p \in Procs : CallNextLockFirst(p)
    \/ \E p \in Procs : CallNextSave(p)

\* concurrent creators and call-next handlers, each taking its locks in steps
SpecLocks == InitLocks /\ [][NextLocks]_vars

InitSaves ==
    /\ appts = << >>
    /\ nextPk = 1
    /\ reqs = << >>
    /\ nextReqPk = 1
    /\ notifs = 0
    /\ now = 0
    /\ logging = TRUE
    /\ cap = MaxSavedAppts
    /\ last = NoResp
    /\ pc = [p \in Procs |-> "idle"]
    /\ loc = [p \in Procs |-> NoAppt]
    /\ docLock = [d \in Doctors |-> 0]

NextSaves ==
    \/ Tick
    \/ \E d \in Doctors, t \in Times : ModelCreate(d, t)
    \/ \E k \in DOMAIN appts, d \in Doctors, t \in Times :
            EditAppointment(k, d, t, appts[k].status)
    \/ \E k \in 1..cap : CancelAppointment(k)
    \/ \E k \in 1..cap : ConfirmAppointment(k)
    \/ \E d \in Doctors, k \in 0..cap : CallNext(d, k)
    \/ \E k \in 1..cap, s \in {COMPLETED, CANCELLED} : AdminMarkStatus(k, s)

\* every operation that writes an existing appointment, responses recorded;
\* an edit moves the appointment and leaves the status field as it is
SpecSaves == InitSaves /\ [][NextSaves]_vars

NextMoves ==
    \/ \E d \in Doctors, t \in Times : ModelCreate(d, t)
    \/ \E k \in DOMAIN appts, d \in Doctors, t \in 0..MaxMoveTime :
            EditAppointment(k, d, t, appts[k].status)
    \/ \E k \in 1..cap : CancelAppointment(k)

\* appointments are booked, cancelled and moved to another doctor or time
\* while the clock stands still; an edit leaves the status field as it is
SpecMoves == InitDesk /\ [][NextMoves]_vars

\* ------------------------------------------- cancel next to call-next

\* cancel_appointment (POST): get_object_or_404 and the COMPLETED test, read
\* outside any transaction and without a row lock
CancelBegin(p, pk) ==
    /\ pc[p] = "idle"
    /\ pk \in DOMAIN appts
    /\ IF appts[pk].status = COMPLETED THEN
            /\ last' = Resp("cancel", "refused", pk, 0)
            /\ UNCHANGED <<pc, loc>>
       ELSE /\ loc' = [loc EXCEPT ![p] = [pk |-> pk]]
            /\ pc' = [pc EXCEPT ![p] = "cx_update"]
            /\ UNCHANGED last
    /\ UNCHANGED <<appts, nextPk, reqs, nextReqPk, notifs, now, logging, cap, docLock>>

\* cancel_appointment: Appointment.objects.filter(pk=appt.pk).update(status=
\* CANCELLED); the UPDATE waits while another transaction holds the row
CancelUpdate(p) ==
    /\ pc[p] = "cx_update"
    /\ CanLockRow(p, loc[p].pk)
    /\ appts' = [appts EXCEPT ![loc[p].pk].status = CANCELLED]
    /\ last' = Resp("cancel", "ok", loc[p].pk, 0)
    /\ pc' = [pc EXCEPT ![p] = "idle"]
    /\ loc' = [loc EXCEPT ![p] = NoAppt]
    /\ UNCHANGED <<nextPk, reqs, nextReqPk, notifs, now, logging, cap, docLock>>

InitCalls ==
    /\ appts = << >>
    /\ nextPk = 1
    /\ reqs = << >>
    /\ nextReqPk = 1
    /\ notifs = 0
    /\ now = 0
    /\ logging = FALSE
    /\ cap = MaxAppts
    /\ last = NoResp
    /\ pc = [p \in Procs |-> "idle"]
    /\ loc = [p \in Procs |-> NoAppt]
    /\ docLock = [d \in Doctors |-> 0]

NextCalls ==
    \/ Tick
    \/ \E d \in Doctors, t \in Times : ModelCreate(d, t)
    \/ \E p \in Procs, k \in 1..cap : CancelBegin(p, k)
    \/ \E p \in Procs : CancelUpdate(p)
    \/ \E p \in Procs, d \in Doctors, k \in 0..cap : CallNextBegin(p, d, k)
    \/ \E p \in Procs : CallNextLockExplicit(p)
    \/ \E p \in Procs : CallNextLockFirst(p)
    \/ \E p \in Procs : CallNextSave(p)

\* concurrent cancel and call-next handlers over appointments already booked
SpecCalls == InitCalls /\ [][NextCalls]_vars

NextCallers ==
    \/ Tick
    \/ \E d \in Doctors, t \in Times : ModelCreate(d, t)
    \/ \E p \in Procs, d \in Doctors, k \in 0..cap : CallNextBegin(p, d, k)
    \/ \E p \in Procs : CallNextLockExplicit(p)
    \/ \E p \in Procs : CallNextLockFirst(p)
    \/ \E p \in Procs : CallNextSave(p)

\* concurrent call-next handlers over appointments already booked
SpecCallers == InitCalls /\ [][NextCallers]_vars

\* ------------------------------------------------ booking request review

\* admin.PatientBookingRequestAdmin.mark_as_confirmed on the selected rows:
\* queryset.update, no validation
mark_as_confirmed(sel) ==
    /\ sel # {}
    /\ sel \subseteq DOMAIN reqs
    /\ reqs' = [k \in DOMAIN reqs |->
                    IF k \in sel THEN [reqs[k] EXCEPT !.status = REQ_CONFIRMED] ELSE reqs[k]]
    /\ last' = Resp("mark_confirmed", "ok", 0, 0)
    /\ UNCHANGED <<appts, nextPk, nextReqPk, notifs, now, logging, cap, pc, loc, docLock>>

\* admin.PatientBookingRequestAdmin.mark_as_rejected on the selected rows
mark_as_rejected(sel) ==
    /\ sel # {}
    /\ sel \subseteq DOMAIN reqs
    /\ reqs' = [k \in DOMAIN reqs |->
                    IF k \in sel THEN [reqs[k] EXCEPT !.status = REQ_REJECTED] ELSE reqs[k]]
    /\ last' = Resp("mark_rejected", "ok", 0, 0)
    /\ UNCHANGED <<appts, nextPk, nextReqPk, notifs, now, logging, cap, pc, loc, docLock>>

InitReview ==
    /\ appts = << >>
    /\ nextPk = 1
    /\ reqs = << >>
    /\ nextReqPk = 1
    /\ notifs = 0
    /\ now = 0
    /\ logging = FALSE
    /\ cap = MaxAppts
    /\ last = NoResp
    /\ pc = [p \in Procs |-> "idle"]
    /\ loc = [p \in Procs |-> NoAppt]
    /\ docLock = [d \in Doctors |-> 0]

NextReview ==
    \/ Tick
    \/ \E d \in Doctors, t \in Times, e \in BOOLEAN : BookPatient(d, t, e)
    \/ \E sel \in SUBSET (1..MaxReqs) : mark_as_confirmed(sel)
    \/ \E sel \in SUBSET (1..MaxReqs) : mark_as_rejected(sel)
    \/ \E k \in 1..MaxReqs, f \in BOOLEAN : ApproveBookingRequest(k, f)

\* booking requests under review: submitted, marked in the admin, approved
SpecReview == InitReview /\ [][NextReview]_vars

\* ------------------------------------------------------- queue snapshots

Patients == 1..NumPatients

\* f"P-{queue_number:03d}" if queue_number else "-"
TicketNumber(q) ==
    IF q = NULL \/ q = 0 THEN [text |-> "-", n |-> 0] ELSE [text |-> "P-", n |-> q]

\* scheduled_time.strftime("%H:%M") of a value loaded from the database:
\* the time of day in UTC, the date dropped
ClockTime(t) == t % DayLen

\* a bug: the status filter is missing
TodayPending_any_status(rows, clock) ==
    {k \in DOMAIN rows :
        /\ rows[k].time # NULL
        /\ LocalDate(rows[k].time) = _today(clock)}

\* filter(scheduled_time__date=today, status=PENDING)
TodayPending(rows, clock) ==
    {k \in DOMAIN rows :
        /\ rows[k].status = PENDING
        /\ rows[k].time # NULL
        /\ LocalDate(rows[k].time) = _today(clock)}

\* .order_by("scheduled_time") restricted to the rows S
RECURSIVE OrderByTime(_, _)
OrderByTime(rows, S) ==
    IF S = {} THEN << >>
    ELSE LET k == First(rows, S) IN <<k>> \o OrderByTime(rows, S \ {k})

\* by_doc[d.id]: today's PENDING rows of one doctor in query order
TodayAppts(rows, doctor, clock) ==
    OrderByTime(rows, {k \in TodayPending(rows, clock) : rows[k].doctor = doctor})

\* the dict of one appointment in the internal snapshot
InternalEntry(rows, names, k) ==
    [id |-> k, number |-> TicketNumber(rows[k].queue),
     patient_name |-> names[k], time |-> ClockTime(rows[k].time)]

\* a bug: the public dict carries the patient's name
PublicEntry_with_name(rows, names, k) ==
    [id |-> k, number |-> TicketNumber(rows[k].queue),
     patient_name |-> names[k], time |-> ClockTime(rows[k].time)]

\* the dict of one appointment in the public snapshot
PublicEntry(rows, names, k) ==
    [id |-> k, number |-> TicketNumber(rows[k].queue), time |-> ClockTime(rows[k].time)]

\* views._queue_snapshot_internal, doctors d..NumDoctors: one dict for each
\* doctor that has a PENDING appointment today, in the order of the doctor ids
RECURSIVE _queue_snapshot_internal(_, _, _, _)
_queue_snapshot_internal(rows, names, clock, d) ==
    IF d > NumDoctors THEN << >>
    ELSE LET today_appts == TodayAppts(rows, d, clock)
             q == [doctor_id |-> d,
                   status |-> "available",
                   current_patient |-> InternalEntry(rows, names, Head(today_appts)),
                   waiting_list |-> [i \in 1..(Len(today_appts) - 1) |->
                                        InternalEntry(rows, names, today_appts[i + 1])]]
         IN  (IF today_appts = << >> THEN << >> ELSE <<q>>)
                 \o _queue_snapshot_internal(rows, names, clock, d + 1)

\* views._queue_snapshot_public, doctors d..NumDoctors
RECURSIVE _queue_snapshot_public(_, _, _, _)
_queue_snapshot_public(rows, names, clock, d) ==
    IF d > NumDoctors THEN << >>
    ELSE LET today_appts == TodayAppts(rows, d, clock)
             q == [doctor_id |-> d,
                   status |-> "available",
                   current |-> PublicEntry(rows, names, Head(today_appts)),
                   waiting |-> [i \in 1..(Len(today_appts) - 1) |->
                                    PublicEntry(rows, names, today_appts[i + 1])]]
         IN  (IF today_appts = << >> THEN << >> ELSE <<q>>)
                 \o _queue_snapshot_public(rows, names, clock, d + 1)

\* views.queue_number_api (GET); names: the patient of each appointment
QueueNumberApi(names) ==
    /\ last' = [op |-> "queue", outcome |-> "ok", pk |-> 0,
                ref |-> _queue_snapshot_internal(appts, names, now, 1)]
    /\ UNCHANGED <<appts, nextPk, reqs, nextReqPk, notifs, now, logging, cap, pc, loc, docLock>>

\* views.queue_public_api (GET)
QueuePublicApi(names) ==
    /\ last' = [op |-> "public", outcome |-> "ok", pk |-> 0,
                ref |-> _queue_snapshot_public(appts, names, now, 1)]
    /\ UNCHANGED <<appts, nextPk, reqs, nextReqPk, notifs, now, logging, cap, pc, loc, docLock>>

InitQueue ==
    /\ appts = << >>
    /\ nextPk = 1
    /\ reqs = << >>
    /\ nextReqPk = 1
    /\ notifs = 0
    /\ now = 0
    /\ logging = FALSE
    /\ cap = MaxAppts
    /\ last = NoResp
    /\ pc = [p \in Procs |-> "idle"]
    /\ loc = [p \in Procs |-> NoAppt]
    /\ docLock = [d \in Doctors |-> 0]

NextQueue ==
    \/ Tick
    \/ \E d \in Doctors, t \in Times : ModelCreate(d, t)
    \/ \E k \in 1..cap : CancelAppointment(k)
    \/ \E d \in Doctors, k \in 0..cap : CallNext(d, k)
    \/ \E names \in [DOMAIN appts -> Patients] : QueueNumberApi(names)
    \/ \E names \in [DOMAIN appts -> Patients] : QueuePublicApi(names)

\* the waiting-room displays next to booking, cancelling and calling
SpecQueue == InitQueue /\ [][NextQueue]_vars

\* ================================================================ claims

\* C1: in every reachable state no two non-cancelled appointments that have
\* a queue number share the same (doctor, scheduled day, queue number).
C1_QueueNumberUnique ==
    \A a, b \in DOMAIN appts :
        (/\ a # b
         /\ appts[a].status # CANCELLED /\ appts[b].status # CANCELLED
         /\ appts[a].queue # NULL /\ appts[b].queue # NULL
         /\ appts[a].doctor = appts[b].doctor
         /\ appts[a].day = appts[b].day)
        => appts[a].queue # appts[b].queue

\* two ACTIVE appointments of one doctor on one day, both numbered
C1_Witness ==
    \E a, b \in DOMAIN appts :
        /\ a # b
        /\ appts[a].status # CANCELLED /\ appts[b].status # CANCELLED
        /\ appts[a].doctor = appts[b].doctor /\ appts[a].day = appts[b].day
        /\ appts[a].queue # NULL /\ appts[b].queue # NULL

\* C2: in every reachable state at most one non-cancelled appointment exists
\* for a doctor at an instant.
C2_NoDoubleBooking ==
    \A a, b \in DOMAIN appts :
        (/\ a # b
         /\ appts[a].status # CANCELLED /\ appts[b].status # CANCELLED
         /\ appts[a].time # NULL
         /\ appts[a].doctor = appts[b].doctor)
        => appts[a].time # appts[b].time

\* a cancelled and a non-cancelled appointment of one doctor at one instant
C2_Witness ==
    \E a, b \in DOMAIN appts :
        /\ appts[a].status = CANCELLED /\ appts[b].status # CANCELLED
        /\ appts[a].doctor = appts[b].doctor
        /\ appts[a].time # NULL /\ appts[a].time = appts[b].time

\* C3: no two creators in flight hold the same queue number for the same
\* (doctor, day), and the number a creator holds is held by no ACTIVE stored
\* appointment of that (doctor, day).
C3_NoDuplicateAssignment ==
    /\ \A p, q \in Procs :
        (/\ p # q
         /\ pc[p] = "insert" /\ pc[q] = "insert"
         /\ loc[p].doctor = loc[q].doctor /\ loc[p].day = loc[q].day)
        => loc[p].queue # loc[q].queue
    /\ \A p \in Procs : \A k \in DOMAIN appts :
        (/\ pc[p] = "insert"
         /\ appts[k].status # CANCELLED
         /\ appts[k].doctor = loc[p].doctor /\ appts[k].day = loc[p].day)
        => appts[k].queue # loc[p].queue

\* one creator holds a number above 1 while another waits for the same doctor and day
C3_Witness ==
    \E p, q \in Procs :
        /\ p # q
        /\ pc[p] = "insert" /\ pc[q] = "lock"
        /\ loc[p].doctor = loc[q].doctor /\ loc[p].day = loc[q].day
        /\ loc[p].queue = 2

\* the appointment a step has created, if any
Created == (DOMAIN appts') \ (DOMAIN appts)

\* C4 as stated: an appointment created on (doctor, day) never gets the queue
\* number of a cancelled appointment of that (doctor, day).
C4_NeverReused ==
    [][\A b \in Created : \A a \in DOMAIN appts :
            (/\ appts[a].status = CANCELLED
             /\ appts[a].doctor = appts'[b].doctor
             /\ appts[a].day = appts'[b].day)
            => appts'[b].queue # appts[a].queue]_vars

\* C4 amended: an appointment created on (doctor, day) gets the queue number
\* of a cancelled appointment of that (doctor, day) only if that number is
\* greater than the number of every appointment still ACTIVE there.
C4_ReusedOnlyAboveActive ==
    [][\A b \in Created : \A a \in DOMAIN appts :
            (/\ appts[a].status = CANCELLED
             /\ appts[a].doctor = appts'[b].doctor
             /\ appts[a].day = appts'[b].day
             /\ appts'[b].queue = appts[a].queue)
            => \A k \in DOMAIN appts :
                    (/\ appts[k].status # CANCELLED
                     /\ appts[k].doctor = appts[a].doctor
                     /\ appts[k].day = appts[a].day)
                    => appts[k].queue < appts[a].queue]_vars

\* after a cancellation, a new appointment got a number above one that is
\* still active, and another one reused a cancelled number
C4_Witness ==
    \E a, b, c \in DOMAIN appts :
        /\ appts[a].status = CANCELLED /\ appts[b].status # CANCELLED
        /\ appts[c].status # CANCELLED /\ b # c
        /\ appts[a].doctor = appts[b].doctor /\ appts[a].day = appts[b].day
        /\ appts[a].doctor = appts[c].doctor /\ appts[a].day = appts[c].day
        /\ a < b
        /\ appts[a].queue = appts[b].queue
        /\ appts[c].queue < appts[a].queue

\* a step of cancel, callNext, confirm or edit
LifecycleStep ==
    \/ \E k \in 1..cap : CancelAppointment(k)
    \/ \E d \in Doctors, k \in 0..cap : CallNext(d, k)
    \/ \E k \in 1..cap : ConfirmAppointment(k)
    \/ \E k \in 1..cap, d \in Doctors, t \in Times, s \in AppointmentStatus :
            EditAppointment(k, d, t, s)

\* C5 as stated: once COMPLETED or CANCELLED, no cancel, callNext, confirm or
\* edit changes the status of an appointment.
C5_TerminalStatuses ==
    [][LifecycleStep =>
            \A k \in DOMAIN appts :
                appts[k].status \in {COMPLETED, CANCELLED}
                => (k \in DOMAIN appts' /\ appts'[k].status = appts[k].status)]_vars

\* the appointment the claim says callNext(doctor, apptId) completes
ExpectedNext(doctor, apptId) ==
    IF /\ apptId \in DOMAIN appts
       /\ appts[apptId].doctor = doctor
       /\ appts[apptId].status = PENDING
       /\ appts[apptId].time # NULL
       /\ LocalDate(appts[apptId].time) = _today(now)
    THEN apptId
    ELSE First(appts, BaseQs(appts, doctor, now))

\* C6 as stated: whenever the doctor has a PENDING appointment today,
\* callNext succeeds and completes exactly the expected appointment.
C6_CallNextCompletesExpected ==
    [][\A d \in Doctors, k \in 0..cap :
            (CallNext(d, k) /\ BaseQs(appts, d, now) # {})
            => /\ last'.outcome = "ok"
               /\ appts' = [appts EXCEPT ![ExpectedNext(d, k)].status = COMPLETED]]_vars

\* C7 as stated: each callNext(doctor) either completes one of the doctor's
\* PENDING appointments of today, or, when there is none, answers QueueEmpty
\* and changes nothing.
C7_CallNextUntilEmpty ==
    [][\A d \in Doctors :
            CallNext(d, 0)
            => IF BaseQs(appts, d, now) = {}
               THEN last'.outcome = "empty" /\ appts' = appts
               ELSE /\ last'.outcome = "ok"
                    /\ \E k \in BaseQs(appts, d, now) :
                            appts' = [appts EXCEPT ![k].status = COMPLETED]]_vars

\* C8: no step changes the queue number of a stored appointment.
C8_QueueNumberKept ==
    [][\A k \in (DOMAIN appts) \cap (DOMAIN appts') :
            appts'[k].queue = appts[k].queue]_vars

\* both appointments ever created are stored, and the second, numbered 2 at
\* its creation, has since been moved to another doctor or day with its number
C8_Witness ==
    /\ nextPk = 3
    /\ DOMAIN appts = {1, 2}
    /\ appts[2].queue = 2
    /\ <<appts[1].doctor, appts[1].day>> # <<appts[2].doctor, appts[2].day>>

\* C9 as stated: right after appointment A at (doctor, instant) was cancelled,
\* creating an appointment at the same (doctor, instant), not in the past,
\* succeeds, the new one is ACTIVE and A is still stored as CANCELLED.
C9_Rebookable ==
    [][\A d \in Doctors, t \in Times :
            (/\ CreateAppointment(d, t, PENDING)
             /\ last.op = "cancel" /\ last.outcome = "ok"
             /\ last.pk \in DOMAIN appts
             /\ appts[last.pk].doctor = d /\ appts[last.pk].time = t
             /\ t >= now - PAST_MARGIN)
            => /\ last'.outcome = "ok"
               /\ Created # {}
               /\ \A b \in Created : appts'[b].status # CANCELLED
               /\ appts'[last.pk].status = CANCELLED]_vars

\* C10 as stated: a request whose approval created an Appointment is CONFIRMED.
C10_ApprovedIsConfirmed ==
    (last.op = "approve" /\ last.outcome = "ok")
    => reqs[last.ref].status = REQ_CONFIRMED

\* an ACTIVE appointment occupies the (doctor, instant) of request k
SlotOccupied(k) ==
    \E a \in DOMAIN appts :
        /\ appts[a].status # CANCELLED
        /\ appts[a].doctor = reqs[k].doctor
        /\ appts[a].time = reqs[k].time

C12_PastCheckBoundary ==
    [][\A d \in Doctors, t \in Times, st \in AppointmentStatus :
            CreateAppointment(d, t, st)
            => /\ (last'.outcome = "past") <=> (t < now - PAST_MARGIN)
               /\ (last'.outcome = "past") => (appts' = appts /\ nextPk' = nextPk)]_vars

\* a create has just been refused as past while an appointment scheduled
\* exactly at now minus the margin is stored
C12_Witness ==
    /\ last.op = "create" /\ last.outcome = "past"
    /\ \E k \in DOMAIN appts : appts[k].time = now - PAST_MARGIN

\* C13: submitting a booking request for an instant earlier than now minus
\* the grace margin fails with the past-time error, stores no request and
\* emits no notification.
C13_SubmitPastRejected ==
    [][\A d \in Doctors, t \in Times, e \in BOOLEAN :
            (BookPatient(d, t, e) /\ t < now - PAST_MARGIN)
            => /\ last'.outcome = "past"
               /\ reqs' = reqs
               /\ nextReqPk' = nextReqPk
               /\ notifs' = notifs]_vars

\* a submission for an instant earlier than now minus the margin has just
\* been refused, and neither a request nor a notification is stored
C13_Witness ==
    /\ last.op = "book" /\ last.outcome = "past"
    /\ last.ref < now - PAST_MARGIN
    /\ reqs = << >>
    /\ notifs = 0

\* C14: a submission never creates or changes an appointment or consumes a
\* queue number, and a submission for a future instant that no ACTIVE
\* appointment of the doctor occupies is accepted as a new PENDING request,
\* whatever requests and CANCELLED appointments exist for that slot.
C14_SubmitChecksActiveOnly ==
    [][\A d \in Doctors, t \in Times, e \in BOOLEAN :
            BookPatient(d, t, e)
            => /\ appts' = appts
               /\ nextPk' = nextPk
               /\ (/\ t > now
                   /\ ~ \E a \in DOMAIN appts :
                          /\ appts[a].status # CANCELLED
                          /\ appts[a].doctor = d
                          /\ appts[a].time = t)
                  => /\ e => last'.outcome = "ok"
                     /\ reqs' = Put(reqs, nextReqPk,
                                    [doctor |-> d, time |-> t, status |-> REQ_PENDING])]_vars

\* a submission has just been accepted for a slot that another PENDING
\* request and a CANCELLED appointment already name
C14_Witness ==
    /\ last.op = "book" /\ last.outcome = "ok"
    /\ \E r \in DOMAIN reqs : \E a \in DOMAIN appts :
        /\ r # last.ref
        /\ reqs[r].status = REQ_PENDING /\ reqs[last.ref].status = REQ_PENDING
        /\ reqs[r].doctor = reqs[last.ref].doctor /\ reqs[r].time = reqs[last.ref].time
        /\ appts[a].status = CANCELLED
        /\ appts[a].doctor = reqs[r].doctor /\ appts[a].time = reqs[r].time

\* C15 as stated: confirm never changes the stored status of an appointment:
\* PENDING stays PENDING, COMPLETED stays COMPLETED, CANCELLED is refused and
\* stays CANCELLED.
C15_ConfirmKeepsStatus ==
    [][\A k \in 1..cap :
            ConfirmAppointment(k)
            => /\ k \in DOMAIN appts'
               /\ appts'[k].status = appts[k].status]_vars

\* C16 as stated: cancel succeeds from PENDING only; from any other status it
\* fails and changes nothing; on success only the status of the target
\* changes, to CANCELLED.
C16_CancelFromPendingOnly ==
    [][\A k \in 1..cap :
            CancelAppointment(k)
            => IF appts[k].status = PENDING
               THEN /\ last'.outcome = "ok"
                    /\ appts' = [appts EXCEPT ![k].status = CANCELLED]
               ELSE /\ last'.outcome # "ok"
                    /\ appts' = appts]_vars

\* C16 amended: cancel fails on a COMPLETED appointment and changes nothing;
\* on a PENDING or an already CANCELLED appointment it succeeds, and only the
\* status of the target changes, to CANCELLED: the row stays, its instant and
\* queue number stay, every other appointment stays.
C16_CancelRefusedOnCompletedOnly ==
    [][\A k \in 1..cap :
            CancelAppointment(k)
            => /\ nextPk' = nextPk
               /\ IF appts[k].status = COMPLETED
                  THEN /\ last'.outcome = "refused"
                       /\ appts' = appts
                  ELSE /\ last'.outcome = "ok"
                       /\ appts' = [appts EXCEPT ![k].status = CANCELLED]]_vars

\* a cancel has just been refused on a COMPLETED appointment, while an
\* appointment cancelled before is still stored with its queue number
C16_Witness ==
    /\ last.op = "cancel" /\ last.outcome = "refused"
    /\ last.pk \in DOMAIN appts
    /\ appts[last.pk].status = COMPLETED
    /\ \E a \in DOMAIN appts : appts[a].status = CANCELLED /\ appts[a].queue = 1

\* the queue numbers the ACTIVE appointments of (doctor, day) hold
ActiveNumbers(doctor, day) ==
    {appts[k].queue : k \in {j \in DOMAIN appts :
        /\ appts[j].doctor = doctor
        /\ appts[j].day = day
        /\ appts[j].status # CANCELLED
        /\ appts[j].queue # NULL}}

\* C17: a created appointment with an instant on (doctor, day) gets 1 when
\* no ACTIVE appointment of exactly that (doctor, day) has a number, and
\* otherwise 1 + the greatest number among them; appointments of other
\* doctors or days play no part.
C17_MaxPlusOne ==
    [][\A b \in Created :
            LET S == ActiveNumbers(appts'[b].doctor, appts'[b].day)
                q == appts'[b].queue
            IN  /\ appts'[b].day = LocalDate(appts'[b].time)
                /\ S = {} => q = 1
                /\ S # {} => ((q - 1) \in S /\ \A x \in S : x < q)]_vars

\* two appointments of one doctor on one day numbered 1 and 2, and another
\* doctor's appointment of the same day numbered 1
C17_Witness ==
    \E a, b, c \in DOMAIN appts :
        /\ appts[a].status # CANCELLED /\ appts[b].status # CANCELLED
        /\ appts[c].status # CANCELLED
        /\ appts[a].doctor = appts[b].doctor /\ appts[a].day = appts[b].day
        /\ appts[a].queue = 1 /\ appts[b].queue = 2
        /\ appts[c].doctor # appts[a].doctor /\ appts[c].day = appts[a].day
        /\ appts[c].queue = 1

\* the least positive integer outside S
LeastUnused(S) ==
    CHOOSE n \in 1..(Cardinality(S) + 1) : n \notin S /\ \A m \in 1..(n - 1) : m \in S

\* C18 as stated: a created appointment gets the least positive integer that
\* no ACTIVE appointment of its (doctor, day) holds.
C18_SmallestUnused ==
    [][\A b \in Created :
            appts'[b].queue = LeastUnused(ActiveNumbers(appts'[b].doctor, appts'[b].day))]_vars

\* C18 amended: a created appointment gets a number that no ACTIVE
\* appointment of its (doctor, day) holds and that is above all of theirs; it
\* is the least unused positive integer whenever the ACTIVE numbers have no
\* gap, that is, are exactly 1..n.
C18_UnusedAboveActive ==
    [][\A b \in Created :
            LET S == ActiveNumbers(appts'[b].doctor, appts'[b].day)
                q == appts'[b].queue
            IN  /\ q \notin S
                /\ q > 0
                /\ \A x \in S : q > x
                /\ (S = 1..Cardinality(S)) => q = LeastUnused(S)]_vars

\* number 1 was cancelled and is unused, yet the appointment created after
\* that holds 3, above the ACTIVE number 2
C18_Witness ==
    \E a, b, c \in DOMAIN appts :
        /\ a < c /\ b < c
        /\ appts[a].status = CANCELLED /\ appts[a].queue = 1
        /\ appts[b].status # CANCELLED /\ appts[b].queue = 2
        /\ appts[c].status # CANCELLED /\ appts[c].queue = 3
        /\ appts[a].doctor = appts[b].doctor /\ appts[a].day = appts[b].day
        /\ appts[a].doctor = appts[c].doctor /\ appts[a].day = appts[c].day

\* Primary keys are handed out at the INSERT, which a creator executes while
\* it holds the Doctor lock: among the appointments of one doctor the order
\* of the primary keys is the order in which the lock was acquired.

C20_DoctorLockFirst ==
    \A p \in Calling :
        loc[p].locked # {} => docLock[loc[p].doctor] = p

\* C21 as stated: when emitting the notification fails, a submission that
\* passes the checks still succeeds: the request is stored as PENDING and the
\* caller gets no error.
C21_EmissionFireAndForget ==
    [][\A d \in Doctors, t \in Times :
            (/\ BookPatient(d, t, FALSE)
             /\ t > now
             /\ ~ \E a \in DOMAIN appts :
                    /\ appts[a].status # CANCELLED
                    /\ appts[a].doctor = d
                    /\ appts[a].time = t)
            => /\ last'.outcome = "ok"
               /\ reqs' = Put(reqs, nextReqPk,
                              [doctor |-> d, time |-> t, status |-> REQ_PENDING])]_vars

\* the ids of one doctor's dict in an internal snapshot: current, then waiting
QueueIds(q) ==
    <<q.current_patient.id>> \o [i \in 1..Len(q.waiting_list) |-> q.waiting_list[i].id]

\* C22: after a snapshot, each doctor's current entry followed by the waiting
\* list holds exactly that doctor's PENDING appointments scheduled today, in
\* strictly ascending scheduled time; a doctor without such appointments has no
\* entry; the snapshot changes no appointment, request or notification.
C22_SnapshotPendingTodayAscending ==
    [][(/\ last'.op = "queue"
        /\ \E names \in [DOMAIN appts -> Patients] : QueueNumberApi(names)) =>
            LET snap == last'.ref
                Due(d) == {k \in DOMAIN appts : /\ appts[k].doctor = d
                                                /\ appts[k].status = PENDING
                                                /\ appts[k].time # NULL
                                                /\ LocalDate(appts[k].time) = _today(now)}
            IN  /\ \A d \in Doctors :
                      \/ /\ Due(d) = {}
                         /\ \A i \in 1..Len(snap) : snap[i].doctor_id # d
                      \/ /\ Due(d) # {}
                         /\ \E i \in 1..Len(snap) :
                              /\ snap[i].doctor_id = d
                              /\ \A j \in 1..Len(snap) : snap[j].doctor_id = d => j = i
                              /\ LET ids == QueueIds(snap[i])
                                 IN  /\ {ids[n] : n \in 1..Len(ids)} = Due(d)
                                     /\ Len(ids) = Cardinality(Due(d))
                                     /\ \A n \in 1..(Len(ids) - 1) :
                                            appts[ids[n]].time < appts[ids[n + 1]].time
                /\ UNCHANGED <<appts, nextPk, reqs, nextReqPk, notifs, now>>]_vars

\* a snapshot whose waiting patient was booked before the current one: the
\* order of the entries is the order of the scheduled times, not of the ids
C22_Witness ==
    /\ last.op = "queue"
    /\ \E i \in 1..Len(last.ref) :
          /\ Len(last.ref[i].waiting_list) >= 1
          /\ last.ref[i].waiting_list[1].id < last.ref[i].current_patient.id

\* one appointment's dict with the patient's identity removed
StripEntry(e) == [id |-> e.id, number |-> e.number, time |-> e.time]

\* an internal snapshot with the patients' identities removed
StripIdentity(snap) ==
    [i \in 1..Len(snap) |->
        [doctor_id |-> snap[i].doctor_id,
         status |-> snap[i].status,
         current |-> StripEntry(snap[i].current_patient),
         waiting |-> [n \in 1..Len(snap[i].waiting_list) |->
                         StripEntry(snap[i].waiting_list[n])]]]

\* C23: the public snapshot equals the internal snapshot of the same state
\* with the patient identity removed (same appointments, ticket numbers and
\* times in the same order per doctor), whatever the patients' identities
\* are: it is the same for every assignment of patients to the appointments.
C23_PublicIsInternalWithoutIdentity ==
    [][(/\ last'.op = "public"
        /\ \E names \in [DOMAIN appts -> Patients] : QueuePublicApi(names)) =>
            \A other \in [DOMAIN appts -> Patients] :
                last'.ref = StripIdentity(_queue_snapshot_internal(appts, other, now, 1))]_vars

\* a public snapshot that shows a current and a waiting patient
C23_Witness ==
    /\ last.op = "public"
    /\ \E i \in 1..Len(last.ref) : Len(last.ref[i].waiting) >= 1

\* C24: a REJECTED booking request stays REJECTED in every step, and
\* approving it creates no appointment.
C24_RejectTerminal ==
    [][\A k \in DOMAIN reqs :
          reqs[k].status = REQ_REJECTED =>
             /\ reqs'[k].status = REQ_REJECTED
             /\ \A f \in BOOLEAN : ApproveBookingRequest(k, f) => appts' = appts]_vars

\* C25: every appointment stored by create has status PENDING, and it has a
\* queue number exactly when it was created with a scheduled time.
C25_CreatePersistsPending ==
    [][\A d \in Doctors, t \in Times, s \in AppointmentStatus :
          (CreateAppointment(d, t, s) /\ nextPk' = nextPk + 1) =>
             /\ appts'[nextPk].status = PENDING
             /\ (appts'[nextPk].queue # NULL) <=> (t # NULL)]_vars

\* C26: cancel is atomic with respect to call-next: the status write of a
\* cancel whose COMPLETED test passed never lands on an appointment that a
\* call-next has completed in the meantime.
C26_CancelAtomic ==
    [][\A p \in Procs : CancelUpdate(p) => appts[loc[p].pk].status # COMPLETED]_vars

\* C27: a call-next handler that writes COMPLETED writes it on an appointment
\* that is still PENDING: no appointment is completed by two calls.
C27_CompletedByOneCall ==
    [][\A p \in Procs :
          (CallNextSave(p) /\ appts'[loc[p].nxt].status = COMPLETED)
             => appts[loc[p].nxt].status = PENDING]_vars

\* two handlers are inside call_next_api for one doctor, one holds the row
\* of the next patient and the other is waiting to select
C27_Witness ==
    \E p, q \in Procs :
        /\ p # q
        /\ pc[p] = "cn_save"
        /\ pc[q] \in {"cn_first", "cn_select"}
        /\ loc[q].doctor = loc[p].doctor
        /\ (pc[q] = "cn_select" => loc[q].apptId = loc[p].nxt)
        /\ First(appts, BaseQs(appts, loc[q].doctor, now)) = loc[p].nxt

\* C28: call-next for a doctor changes at most one appointment, and the one
\* it changes belonged to that doctor, was PENDING and is scheduled today,
\* whatever explicit id is given.
C28_CallNextFrame ==
    [][\A d \in Doctors, k \in 0..cap :
          CallNext(d, k) =>
            LET changed == {a \in DOMAIN appts : appts'[a] # appts[a]}
            IN  /\ DOMAIN appts' = DOMAIN appts
                /\ Cardinality(changed) <= 1
                /\ \A a \in changed :
                      /\ appts[a].doctor = d
                      /\ appts[a].status = PENDING
                      /\ appts[a].time # NULL
                      /\ LocalDate(appts[a].time) = _today(now)]_vars

\* the instant lies before the clock by more than the grace margin
IsPast(t) == t # NULL /\ t < now - PAST_MARGIN

\* an edit, a confirm or a call-next whose record is in the past is refused
\* with the past-time validation error and the stored rows stay as they are
PastSaveRefused ==
    /\ \A k \in 1..cap, d \in Doctors, t \in Times, s \in AppointmentStatus :
          (IsPast(t) /\ last'.op = "edit" /\ EditAppointment(k, d, t, s))
             => (appts' = appts /\ last'.outcome = "past")
    /\ \A k \in DOMAIN appts :
          (/\ appts[k].status # CANCELLED
           /\ IsPast(appts[k].time)
           /\ last'.op = "confirm"
           /\ ConfirmAppointment(k))
             => (appts' = appts /\ last'.outcome = "past")
    /\ \A d \in Doctors, k \in 0..cap :
          (/\ last'.op = "callNext"
           /\ PickNext(appts, d, k, now) # 0
           /\ IsPast(appts[PickNext(appts, d, k, now)].time)
           /\ CallNext(d, k))
             => (appts' = appts /\ last'.outcome = "past")

\* C29 as stated: saves of a past appointment are refused and the row is
\* unchanged; the only step that changes a stored appointment whose time is
\* in the past is cancel.
C29_OnlyCancelExempt ==
    [][/\ PastSaveRefused
       /\ \A a \in DOMAIN appts :
             (appts'[a] # appts[a] /\ IsPast(appts'[a].time)) => CancelAppointment(a)]_vars

\* C29: saves of a past appointment (edit, confirm, call-next) are refused
\* with the past-time error and the row is unchanged; a stored appointment
\* whose time is in the past changes only through a direct status write:
\* cancel, or the admin actions mark_completed and mark_cancelled.
C29_OnlyDirectWritesExempt ==
    [][/\ PastSaveRefused
       /\ \A a \in DOMAIN appts :
             (appts'[a] # appts[a] /\ IsPast(appts'[a].time))
                => \/ CancelAppointment(a)
                   \/ \E s \in {COMPLETED, CANCELLED} : AdminMarkStatus(a, s)]_vars

\* a call-next or a confirm was refused with the past-time error while the
\* appointment it addressed is still PENDING in the past
C29_Witness ==
    /\ last.op \in {"callNext", "confirm"}
    /\ last.outcome = "past"
    /\ last.pk \in DOMAIN appts
    /\ appts[last.pk].status = PENDING
    /\ IsPast(appts[last.pk].time)

\* another ACTIVE appointment of (doctor, day) holds the queue number of k
NumberTaken(k, doctor, day) ==
    \E b \in DOMAIN appts :
        /\ b # k
        /\ appts[b].status # CANCELLED
        /\ appts[b].doctor = doctor
        /\ appts[b].day = day
        /\ appts[b].queue # NULL
        /\ appts[b].queue = appts[k].queue

\* C30: an edit that moves an ACTIVE appointment, and keeps it ACTIVE, to
\* another (doctor, day) where another ACTIVE appointment holds the same
\* queue number is refused, and the stored appointments are unchanged.
C30_MoveOntoTakenNumberRefused ==
    [][\A k \in DOMAIN appts, d \in Doctors, t \in 0..MaxMoveTime, s \in AppointmentStatus :
          (/\ last'.op = "edit"
           /\ appts[k].status # CANCELLED
           /\ s # CANCELLED
           /\ <<d, LocalDate(t)>> # <<appts[k].doctor, appts[k].day>>
           /\ NumberTaken(k, d, LocalDate(t))
           /\ EditAppointment(k, d, t, s))
             => (appts' = appts /\ last'.outcome # "ok")]_vars

\* an edit was refused by the queue-number constraint: the appointment it
\* addressed shares its queue number with an ACTIVE appointment elsewhere
C30_Witness ==
    /\ last.op = "edit"
    /\ last.outcome = "integrity"
    /\ last.pk \in DOMAIN appts
    /\ appts[last.pk].status # CANCELLED
    /\ \E b \in DOMAIN appts :
          /\ b # last.pk
          /\ appts[b].status # CANCELLED
          /\ appts[b].queue = appts[last.pk].queue
          /\ <<appts[b].doctor, appts[b].day>> # <<appts[last.pk].doctor, appts[last.pk].day>>
====
